---- MODULE Spec2Model ----
(***************************************************************************)
(* drx4-logs: the commit-message parser, the day grouper, the day          *)
(* summarizer and getDaySummaries, modelled from src/unnamed/part_000      *)
(* (src/src/index.ts holds the same functions).                            *)
(*                                                                         *)
(* Strings are TLA+ strings; a character is a string of length 1.          *)
(* A JavaScript `number | null` is a record [kind, val] with kind "null",  *)
(* "num" or "nan" (parseInt's NaN), so that absent, zero and NaN differ.   *)
(***************************************************************************)
EXTENDS Integers, Sequences, FiniteSets, TLC

VARIABLES
    pc,         \* which step the harness is at
    msg,        \* parseCommit's msg argument
    timestamp,  \* parseCommit's timestamp argument
    entry,      \* the CycleEntry parseCommit returned
    commits,    \* the Commit[] handed to groupByDay (message, author date)
    days,       \* the Map<string, CycleEntry[]> groupByDay returned
    cycles,     \* summarizeDay's cycles argument
    summary,    \* the DaySummary summarizeDay returned
    n,          \* getDaySummaries' n
    today,      \* the UTC day number the clock shows (new Date())
    since,      \* fetchCommits' since argument
    until,      \* the date of fetchCommits' until argument
    summaries,  \* the DaySummary[] getDaySummaries returned
    narrative,  \* renderDayCard's narrative
    rows        \* the text of renderDayCard's timeline rows, one per record

vars == <<pc, msg, timestamp, entry, commits, days, cycles, summary,
          n, today, since, until, summaries, narrative, rows>>

-----------------------------------------------------------------------------
(* number | null *)

Null == [kind |-> "null", val |-> 0]

NaN == [kind |-> "nan", val |-> 0]

Num(v) == [kind |-> "num", val |-> v]

Min(S) == CHOOSE x \in S : \A y \in S : x <= y

-----------------------------------------------------------------------------
(* Characters and the regular-expression character classes *)

Char(s, i) == IF i >= 1 /\ i <= Len(s) THEN SubSeq(s, i, i) ELSE ""

DigitChars == "0123456789"

UpperChars == "ABCDEFGHIJKLMNOPQRSTUVWXYZ"

LowerChars == "abcdefghijklmnopqrstuvwxyz"

Digits == {Char(DigitChars, k) : k \in 1..10}

Letters == {Char(UpperChars, k) : k \in 1..26} \cup {Char(LowerChars, k) : k \in 1..26}

\* \d
IsDigit(c) == c \in Digits

\* [\d,]
IsDigitOrComma(c) == IsDigit(c) \/ c = ","

\* \s
IsSpace(c) == c \in {" ", "\t", "\n", "\r", "\f"}

\* \w, which decides \b
IsWordChar(c) == c \in Digits \/ c = "_" \/ c \in Letters

\* the i flag: letters compare by their lower-case form
ToLowerChar(c) ==
    IF \E k \in 1..26 : Char(UpperChars, k) = c
    THEN Char(LowerChars, CHOOSE k \in 1..26 : Char(UpperChars, k) = c)
    ELSE c

RECURSIVE ToLower(_)
ToLower(s) ==
    IF s = "" THEN ""
    ELSE ToLower(SubSeq(s, 1, Len(s) - 1)) \o ToLowerChar(Char(s, Len(s)))

\* a greedy \s+ or \s* from position i: the first position at or after i whose
\* character is no white space (Len(s)+1 at the end of the string)
SkipSpaces(s, i) == Min({j \in i..(Len(s) + 1) : ~IsSpace(Char(s, j))})

\* a greedy \d+ from position i
SkipDigits(s, i) == Min({j \in i..(Len(s) + 1) : ~IsDigit(Char(s, j))})

\* a greedy [\d,]+ or [\d,]* from position i
SkipDigitsOrCommas(s, i) == Min({j \in i..(Len(s) + 1) : ~IsDigitOrComma(Char(s, j))})

\* the literal lit at position i of s
LitAt(s, i, lit) ==
    /\ i >= 1
    /\ i + Len(lit) - 1 <= Len(s)
    /\ SubSeq(s, i, i + Len(lit) - 1) = lit

-----------------------------------------------------------------------------
(* String methods *)

\* s.split("\n")[0]
FirstLine(s) ==
    LET nl == {j \in 1..Len(s) : Char(s, j) = "\n"}
    IN  IF nl = {} THEN s ELSE SubSeq(s, 1, Min(nl) - 1)

\* s.trim()
Trim(s) ==
    LET keep == {j \in 1..Len(s) : ~IsSpace(Char(s, j))}
    IN  IF keep = {} THEN ""
        ELSE SubSeq(s, Min(keep), CHOOSE j \in keep : \A k \in keep : k <= j)

\* s.slice(k): the characters after the first k
SliceFrom(s, k) == IF k >= Len(s) THEN "" ELSE SubSeq(s, k + 1, Len(s))

\* s.slice(0, k)
SliceTo(s, k) == IF k >= Len(s) THEN s ELSE SubSeq(s, 1, k)

\* s.replace(/,/g, "")
RECURSIVE RemoveCommas(_)
RemoveCommas(s) ==
    IF s = "" THEN ""
    ELSE LET c == Char(s, Len(s))
         IN  RemoveCommas(SubSeq(s, 1, Len(s) - 1)) \o (IF c = "," THEN "" ELSE c)

\* s.split(",")
RECURSIVE Split(_)
Split(s) ==
    LET cs == {j \in 1..Len(s) : Char(s, j) = ","}
    IN  IF cs = {} THEN <<s>>
        ELSE <<SubSeq(s, 1, Min(cs) - 1)>> \o Split(SliceFrom(s, Min(cs)))

RECURSIVE DigitsValue(_)
DigitsValue(s) ==
    IF s = "" THEN 0
    ELSE 10 * DigitsValue(SubSeq(s, 1, Len(s) - 1))
         + ((CHOOSE k \in 1..10 : Char(DigitChars, k) = Char(s, Len(s))) - 1)

\* parseInt(s): leading white space, an optional sign, then the decimal digits up
\* to the first character that is not one; NaN when there is no digit
ParseInt(s) ==
    LET a == SkipSpaces(s, 1)
        signed == Char(s, a) \in {"+", "-"}
        b == IF signed THEN a + 1 ELSE a
        e == SkipDigits(s, b)
    IN  IF e = b THEN NaN
        ELSE Num((IF Char(s, a) = "-" THEN -1 ELSE 1) * DigitsValue(SubSeq(s, b, e - 1)))

-----------------------------------------------------------------------------
(* parseCommit's regular expressions. A match is [matched, text, len]: text  *)
(* is the capture group, len the length of the whole match.                  *)

NoMatch == [matched |-> FALSE, text |-> "", len |-> 0]

\* msg.match(/^Cycle\s+(\d+)(?:-\d+)?:/): anchored at the start of msg (no m
\* flag), case-sensitive; \s+ and \d+ are greedy and nothing they give back can
\* match what follows, so the optional range is tried first and then skipped
CycleMatch(s) ==
    LET a == SkipSpaces(s, 6)
        b == SkipDigits(s, a)
        c == SkipDigits(s, b + 1)
        withRange == Char(s, b) = "-" /\ c > b + 1 /\ Char(s, c) = ":"
        plain == Char(s, b) = ":"
    IN  IF LitAt(s, 1, "Cycle") /\ a > 6 /\ b > a /\ (withRange \/ plain)
        THEN [matched |-> TRUE, text |-> SubSeq(s, a, b - 1),
              len |-> IF withRange THEN c ELSE b]
        ELSE NoMatch

\* /heartbeat\s+#(\d+)/i at position i of the lower-cased body: the end of \d+
HeartbeatAt(lb, i) ==
    LET a == SkipSpaces(lb, i + 9)
        b == SkipDigits(lb, a + 1)
    IN  IF LitAt(lb, i, "heartbeat") /\ a > i + 9 /\ Char(lb, a) = "#" /\ b > a + 1
        THEN [matched |-> TRUE, text |-> SubSeq(lb, a + 1, b - 1), len |-> b - i]
        ELSE NoMatch

\* /balance\s+([\d,]+)\s*sats/i at position i of the lower-cased body
BalanceAt(lb, i) ==
    LET a == SkipSpaces(lb, i + 7)
        b == SkipDigitsOrCommas(lb, a)
        c == SkipSpaces(lb, b)
    IN  IF LitAt(lb, i, "balance") /\ a > i + 7 /\ b > a /\ LitAt(lb, c, "sats")
        THEN [matched |-> TRUE, text |-> SubSeq(lb, a, b - 1), len |-> c + 4 - i]
        ELSE NoMatch

\* /\(([+-]\d[\d,]*)\)/ at position i of the body
DeltaAt(s, i) ==
    LET b == SkipDigitsOrCommas(s, i + 3)
    IN  IF /\ Char(s, i) = "("
           /\ Char(s, i + 1) \in {"+", "-"}
           /\ IsDigit(Char(s, i + 2))
           /\ Char(s, b) = ")"
        THEN [matched |-> TRUE, text |-> SubSeq(s, i + 1, b - 1), len |-> b + 1 - i]
        ELSE NoMatch

\* String.prototype.match without the g flag: the leftmost match
HeartbeatMatch(body) ==
    LET lb == ToLower(body)
        at == {i \in 1..Len(lb) : HeartbeatAt(lb, i).matched}
    IN  IF at = {} THEN NoMatch ELSE HeartbeatAt(lb, Min(at))

BalanceMatch(body) ==
    LET lb == ToLower(body)
        at == {i \in 1..Len(lb) : BalanceAt(lb, i).matched}
    IN  IF at = {} THEN NoMatch ELSE BalanceAt(lb, Min(at))

DeltaMatch(body) ==
    LET at == {i \in 1..Len(body) : DeltaAt(body, i).matched}
    IN  IF at = {} THEN NoMatch ELSE DeltaAt(body, Min(at))

\* /\bw\b/i.test(body) for a word w of letters: w somewhere in the body with no
\* word character right before it and none right after it
HasWord(body, w) ==
    LET lb == ToLower(body)
    IN  \E i \in 1..Len(lb) :
            /\ LitAt(lb, i, w)
            /\ ~IsWordChar(Char(lb, i - 1))
            /\ ~IsWordChar(Char(lb, i + Len(w)))

\* /^idle$/i
IsIdlePart(part) == ToLower(part) = "idle"

\* /^heartbeat\s+#\d+$/i
IsHeartbeatPart(part) ==
    LET m == HeartbeatAt(ToLower(part), 1)
    IN  m.matched /\ m.len = Len(part)

\* /^balance\s+[\d,]+\s*sats(\s*\([+-][\d,]+\))?$/i
IsBalancePart(part) ==
    LET lp == ToLower(part)
        m == BalanceAt(lp, 1)
        a == SkipSpaces(lp, m.len + 1)
        b == SkipDigitsOrCommas(lp, a + 2)
    IN  /\ m.matched
        /\ \/ m.len = Len(lp)
           \/ /\ Char(lp, a) = "("
              /\ Char(lp, a + 1) \in {"+", "-"}
              /\ b > a + 2
              /\ Char(lp, b) = ")"
              /\ b = Len(lp)

\* /^GitHub clean$/i
IsGitHubCleanPart(part) == ToLower(part) = "github clean"

-----------------------------------------------------------------------------
(* parseCommit *)

\* StatusOf with the error words tested before "idle"
StatusOfErrorFirst(body) ==
    IF HasWord(body, "fail") \/ HasWord(body, "error") \/ HasWord(body, "blocked")
    THEN "error"
    ELSE IF HasWord(body, "idle") THEN "idle" ELSE "active"

\* the status cascade of a cycle commit
StatusOf(body) ==
    IF HasWord(body, "idle") THEN "idle"
    ELSE IF HasWord(body, "fail") \/ HasWord(body, "error") \/ HasWord(body, "blocked")
         THEN "error"
         ELSE "active"

\* parseInt(m[1]) of a match whose capture is all digits
CaptureInt(m) == IF m.matched THEN ParseInt(m.text) ELSE Null

\* parseInt(m[1].replace(/,/g, ""))
CaptureIntNoCommas(m) == IF m.matched THEN ParseInt(RemoveCommas(m.text)) ELSE Null

\* one trimmed comma segment of the body is pushed to entry.events
IsEventPart(part) ==
    /\ ~IsIdlePart(part)
    /\ ~IsHeartbeatPart(part)
    /\ ~IsBalancePart(part)
    /\ ~IsGitHubCleanPart(part)
    /\ Len(part) > 0

\* body.split(",").map((s) => s.trim()) and the loop over the parts
EventsOf(body) ==
    LET raw == Split(body)
        parts == [k \in 1..Len(raw) |-> Trim(raw[k])]
    IN  SelectSeq(parts, IsEventPart)

\* ManualEvents pushing the whole message
ManualEventsWholeMessage(m) == <<m>>

\* the events of a commit that is no cycle commit
ManualEvents(m) == <<FirstLine(m)>>

\* the body of a cycle commit: what follows the matched prefix, trimmed
BodyOf(m) == Trim(SliceFrom(m, CycleMatch(m).len))

parseCommit(m, ts) ==
    IF ~CycleMatch(m).matched
    THEN [cycle |-> Null, status |-> "manual", message |-> FirstLine(m),
          timestamp |-> ts, heartbeat |-> Null, balance |-> Null,
          balanceDelta |-> Null, events |-> ManualEvents(m)]
    ELSE LET body == BodyOf(m)
         IN  [cycle |-> ParseInt(CycleMatch(m).text),
              status |-> StatusOf(body),
              message |-> FirstLine(m),
              timestamp |-> ts,
              heartbeat |-> CaptureInt(HeartbeatMatch(body)),
              balance |-> CaptureIntNoCommas(BalanceMatch(body)),
              balanceDelta |-> CaptureIntNoCommas(DeltaMatch(body)),
              events |-> EventsOf(body)]

-----------------------------------------------------------------------------
(* The calendar: day numbers stand for consecutive UTC dates, across a month *)
(* end; an author date is the date's key followed by a time of day.          *)

DateKeys ==
    <<"2026-02-24", "2026-02-25", "2026-02-26", "2026-02-27", "2026-02-28",
      "2026-03-01", "2026-03-02", "2026-03-03", "2026-03-04", "2026-03-05">>

\* d.toISOString().slice(0, 10) of a date on day number d
DateKey(d) == DateKeys[d]

\* the day number of a date key
DayNumber(key) == CHOOSE d \in 1..Len(DateKeys) : DateKeys[d] = key

TimesOfDay == {"T08:15:00Z", "T21:40:00Z"}

\* the ISO string of an instant
IsoString(d, t) == DateKey(d) \o t

-----------------------------------------------------------------------------
(* groupByDay *)

\* [...commits].reverse()
Reverse(s) == [k \in 1..Len(s) |-> s[Len(s) + 1 - k]]

\* the loop of groupByDay over the commits left, in the order given
RECURSIVE GroupLoop(_, _)
GroupLoop(map, cs) ==
    IF Len(cs) = 0 THEN map
    ELSE LET ts == Head(cs).date
             date == SliceTo(ts, 10)
             e == parseCommit(Head(cs).message, ts)
             had == IF date \in DOMAIN map THEN map ELSE map @@ (date :> <<>>)
         IN  GroupLoop([had EXCEPT ![date] = Append(@, e)], Tail(cs))

groupByDay(cs) == GroupLoop(<<>>, Reverse(cs))

-----------------------------------------------------------------------------
(* summarizeDay *)

\* a - b on JavaScript numbers
Minus(a, b) ==
    IF a.kind = "nan" \/ b.kind = "nan" THEN NaN ELSE Num(a.val - b.val)

\* FirstSeen that takes every value it is given
FirstSeenOverwritten(start, v) == IF v # Null THEN v ELSE start

\* if (v !== null) { if (start === null) start = v; ... }
FirstSeen(start, v) == IF v # Null /\ start = Null THEN v ELSE start

\* if (v !== null) { ...; end = v; }
LastSeen(end, v) == IF v # Null THEN v ELSE end

\* the body of the loop over the day's cycles
SummarizeStep(acc, c) ==
    [cycleCounts |-> [acc.cycleCounts EXCEPT ![c.status] = @ + 1],
     allEvents |-> acc.allEvents \o c.events,
     balanceStart |-> FirstSeen(acc.balanceStart, c.balance),
     balanceEnd |-> LastSeen(acc.balanceEnd, c.balance),
     heartbeatStart |-> FirstSeen(acc.heartbeatStart, c.heartbeat),
     heartbeatEnd |-> LastSeen(acc.heartbeatEnd, c.heartbeat)]

RECURSIVE SummarizeLoop(_, _)
SummarizeLoop(acc, cs) ==
    IF Len(cs) = 0 THEN acc
    ELSE SummarizeLoop(SummarizeStep(acc, Head(cs)), Tail(cs))

\* TotalCycles that counts the manual commits too
TotalCyclesWithManual(counts) ==
    counts.idle + counts.active + counts.error + counts.manual

TotalCycles(counts) == counts.idle + counts.active + counts.error

\* DayBalanceDelta that tests the two balances for truthiness: 0 and NaN count
\* as absent
DayBalanceDeltaTruthy(balanceStart, balanceEnd) ==
    IF /\ balanceStart.kind = "num" /\ balanceStart.val # 0
       /\ balanceEnd.kind = "num" /\ balanceEnd.val # 0
    THEN Minus(balanceEnd, balanceStart)
    ELSE Null

DayBalanceDelta(balanceStart, balanceEnd) ==
    IF balanceStart # Null /\ balanceEnd # Null
    THEN Minus(balanceEnd, balanceStart)
    ELSE Null

summarizeDay(date, cs) ==
    LET acc == SummarizeLoop(
                   [cycleCounts |-> [idle |-> 0, active |-> 0, error |-> 0, manual |-> 0],
                    allEvents |-> <<>>,
                    balanceStart |-> Null, balanceEnd |-> Null,
                    heartbeatStart |-> Null, heartbeatEnd |-> Null], cs)
    IN  [date |-> date,
         cycles |-> cs,
         totalCycles |-> TotalCycles(acc.cycleCounts),
         activeCycles |-> acc.cycleCounts.active,
         idleCycles |-> acc.cycleCounts.idle,
         errorCycles |-> acc.cycleCounts.error,
         manualCommits |-> acc.cycleCounts.manual,
         balanceStart |-> acc.balanceStart,
         balanceEnd |-> acc.balanceEnd,
         balanceDelta |-> DayBalanceDelta(acc.balanceStart, acc.balanceEnd),
         heartbeatStart |-> acc.heartbeatStart,
         heartbeatEnd |-> acc.heartbeatEnd,
         events |-> acc.allEvents]

-----------------------------------------------------------------------------
(* Numbers and lists as text *)

RECURSIVE NatToString(_)
NatToString(k) ==
    IF k < 10 THEN Char(DigitChars, k + 1)
    ELSE NatToString(k \div 10) \o Char(DigitChars, (k % 10) + 1)

\* `${v}` for an integer v
IntToString(v) == IF v < 0 THEN "-" \o NatToString(-v) ELSE NatToString(v)

\* `${x}` for a JavaScript number x
NumberToString(x) == IF x.kind = "nan" THEN "NaN" ELSE IntToString(x.val)

\* the digits of a natural number in groups of three separated by commas
RECURSIVE GroupedNat(_)
GroupedNat(k) ==
    IF k < 1000 THEN NatToString(k)
    ELSE GroupedNat(k \div 1000) \o ","
         \o Char(DigitChars, ((k % 1000) \div 100) + 1)
         \o Char(DigitChars, ((k % 100) \div 10) + 1)
         \o Char(DigitChars, (k % 10) + 1)

\* x.toLocaleString() for a JavaScript number x
ToLocaleString(x) ==
    IF x.kind = "nan" THEN "NaN"
    ELSE IF x.val < 0 THEN "-" \o GroupedNat(-x.val) ELSE GroupedNat(x.val)

\* Math.abs(x)
Abs(x) == IF x.kind = "num" /\ x.val < 0 THEN Num(-x.val) ELSE x

\* x > 0 and x < 0 on a value that is not null: both false for NaN
IsPositive(x) == x.kind = "num" /\ x.val > 0

IsNegative(x) == x.kind = "num" /\ x.val < 0

\* list.join(sep)
RECURSIVE Join(_, _)
Join(list, sep) ==
    IF Len(list) = 0 THEN ""
    ELSE IF Len(list) = 1 THEN list[1]
    ELSE list[1] \o sep \o Join(Tail(list), sep)

\* s.replace(/c/g, rep) for a single character c
RECURSIVE ReplaceAll(_, _, _)
ReplaceAll(s, c, rep) ==
    IF s = "" THEN ""
    ELSE (IF Char(s, 1) = c THEN rep ELSE Char(s, 1)) \o ReplaceAll(SliceFrom(s, 1), c, rep)

escapeHtml(s) ==
    ReplaceAll(ReplaceAll(ReplaceAll(ReplaceAll(s, "&", "&amp;"), "<", "&lt;"),
                          ">", "&gt;"), "\"", "&quot;")

\* Dedupe that keeps every element
DedupeNone(list) == list

\* [...new Set(list)]: the first occurrence of every element, in order
RECURSIVE Dedupe(_)
Dedupe(list) ==
    IF Len(list) = 0 THEN <<>>
    ELSE LET front == Dedupe(SubSeq(list, 1, Len(list) - 1))
             last == list[Len(list)]
         IN  IF \E k \in 1..Len(front) : front[k] = last THEN front
             ELSE Append(front, last)

-----------------------------------------------------------------------------
(* narrateDay and narrateCycle *)

Plural(k) == IF k > 1 THEN "s" ELSE ""

\* OpeningSentence that calls a day mixed when it has active or idle cycles
OpeningSentenceMixedEither(day) ==
    IF day.totalCycles = 0 /\ day.manualCommits > 0
    THEN IntToString(day.manualCommits) \o " manual action" \o Plural(day.manualCommits)
         \o " logged (no autonomous cycles)."
    ELSE IF day.activeCycles > 0 \/ day.idleCycles > 0
    THEN "Ran " \o IntToString(day.totalCycles) \o " cycles &mdash; "
         \o IntToString(day.activeCycles) \o " active, "
         \o IntToString(day.idleCycles) \o " on standby."
    ELSE IF day.activeCycles = 0
    THEN "Ran " \o IntToString(day.totalCycles)
         \o " cycles, all on standby watching for messages and tasks."
    ELSE "Ran " \o IntToString(day.totalCycles) \o " cycles, all active."

\* the first part, for a day that has a record
OpeningSentence(day) ==
    IF day.totalCycles = 0 /\ day.manualCommits > 0
    THEN IntToString(day.manualCommits) \o " manual action" \o Plural(day.manualCommits)
         \o " logged (no autonomous cycles)."
    ELSE IF day.activeCycles > 0 /\ day.idleCycles > 0
    THEN "Ran " \o IntToString(day.totalCycles) \o " cycles &mdash; "
         \o IntToString(day.activeCycles) \o " active, "
         \o IntToString(day.idleCycles) \o " on standby."
    ELSE IF day.activeCycles = 0
    THEN "Ran " \o IntToString(day.totalCycles)
         \o " cycles, all on standby watching for messages and tasks."
    ELSE "Ran " \o IntToString(day.totalCycles) \o " cycles, all active."

\* if (day.errorCycles > 0) parts.push(...)
IssueClause(day) ==
    IF day.errorCycles > 0
    THEN <<"Hit " \o IntToString(day.errorCycles) \o " issue" \o Plural(day.errorCycles)
           \o " (see details below).">>
    ELSE <<>>

\* BalanceClause that reports growth for a delta of zero too
BalanceClauseGrowthAtZero(day) ==
    IF day.balanceDelta # Null /\ (IsPositive(day.balanceDelta) \/ day.balanceDelta = Num(0))
    THEN <<"Balance grew by " \o ToLocaleString(day.balanceDelta) \o " sats to "
           \o ToLocaleString(day.balanceEnd) \o " sats.">>
    ELSE IF day.balanceDelta # Null /\ IsNegative(day.balanceDelta)
    THEN <<"Spent " \o ToLocaleString(Abs(day.balanceDelta)) \o " sats &mdash; balance now "
           \o ToLocaleString(day.balanceEnd) \o " sats.">>
    ELSE IF day.balanceEnd # Null
    THEN <<"Balance steady at " \o ToLocaleString(day.balanceEnd) \o " sats.">>
    ELSE <<>>

\* the if / else if / else if on day.balanceDelta and day.balanceEnd
BalanceClause(day) ==
    IF day.balanceDelta # Null /\ IsPositive(day.balanceDelta)
    THEN <<"Balance grew by " \o ToLocaleString(day.balanceDelta) \o " sats to "
           \o ToLocaleString(day.balanceEnd) \o " sats.">>
    ELSE IF day.balanceDelta # Null /\ IsNegative(day.balanceDelta)
    THEN <<"Spent " \o ToLocaleString(Abs(day.balanceDelta)) \o " sats &mdash; balance now "
           \o ToLocaleString(day.balanceEnd) \o " sats.">>
    ELSE IF day.balanceEnd # Null
    THEN <<"Balance steady at " \o ToLocaleString(day.balanceEnd) \o " sats.">>
    ELSE <<>>

\* if (day.heartbeatStart !== null && day.heartbeatEnd !== null) ...
HeartbeatClause(day) ==
    IF day.heartbeatStart # Null /\ day.heartbeatEnd # Null
    THEN LET hbCount == Minus(Minus(day.heartbeatEnd, day.heartbeatStart), Num(-1))
         IN  IF IsPositive(Minus(hbCount, Num(1)))
             THEN <<"Sent " \o NumberToString(hbCount) \o " heartbeats to AIBTC.">>
             ELSE <<"Sent 1 heartbeat to AIBTC.">>
    ELSE <<>>

\* if (day.events.length > 0) ...
NotableClause(day) ==
    IF Len(day.events) > 0
    THEN LET unique == Dedupe(day.events)
         IN  IF Len(unique) <= 3
             THEN <<"Notable: " \o Join(unique, ". ") \o ".">>
             ELSE <<"Notable: " \o Join(SubSeq(unique, 1, 3), ". ") \o ", and "
                    \o IntToString(Len(unique) - 3) \o " more.">>
    ELSE <<>>

narrateDay(day) ==
    IF day.totalCycles = 0 /\ day.manualCommits = 0
    THEN "No recorded activity this day."
    ELSE Join(<<OpeningSentence(day)>> \o IssueClause(day) \o BalanceClause(day)
              \o HeartbeatClause(day) \o NotableClause(day), " ")

\* the parts narrateCycle joins for a record that has a cycle number
CycleParts(c) ==
    <<IF c.status = "idle" THEN "checked in (idle)"
      ELSE IF c.status = "error" THEN "ran into an issue"
      ELSE "was active">>
    \o (IF Len(c.events) > 0
        THEN <<"&mdash; " \o escapeHtml(Join(c.events, ", "))>>
        ELSE <<>>)
    \o (IF c.balanceDelta # Null /\ c.balanceDelta # Num(0)
        THEN <<"(<span class=\"tl-delta "
               \o (IF IsPositive(c.balanceDelta) THEN "pos" ELSE "neg") \o "\">"
               \o (IF IsPositive(c.balanceDelta) THEN "+" ELSE "")
               \o NumberToString(c.balanceDelta) \o " sats</span>)">>
        ELSE <<>>)

narrateCycle(c) ==
    LET time == SliceFrom(SliceTo(c.timestamp, 16), 11)
    IN  IF c.cycle = Null
        THEN "<strong>" \o time \o "</strong> &mdash; " \o escapeHtml(c.message)
        ELSE "<strong>" \o time \o "</strong> Cycle " \o NumberToString(c.cycle) \o ": "
             \o Join(CycleParts(c), " ")

-----------------------------------------------------------------------------
(* getDaySummaries *)

\* daysAgo(k) when the clock shows day number now
daysAgo(now, k) == DateKey(now - k)

\* SkipsDay that skips the most recent day too
SkipsEveryEmptyDay(cs, i) == Len(cs) = 0

\* if (cycles.length === 0 && i > 0) continue
SkipsDay(cs, i) == Len(cs) = 0 /\ i > 0

\* the loop for (let i = 0; i < n; i++), from i on
RECURSIVE SummariesLoop(_, _, _, _)
SummariesLoop(grouped, now, count, i) ==
    IF ~(i < count) THEN <<>>
    ELSE LET date == daysAgo(now, i)
             cs == IF date \in DOMAIN grouped THEN grouped[date] ELSE <<>>
         IN  (IF SkipsDay(cs, i) THEN <<>> ELSE <<summarizeDay(date, cs)>>)
             \o SummariesLoop(grouped, now, count, i + 1)

-----------------------------------------------------------------------------
(* Values the harnesses start from *)

NoEntry ==
    [cycle |-> Null, status |-> "manual", message |-> "", timestamp |-> "",
     heartbeat |-> Null, balance |-> Null, balanceDelta |-> Null, events |-> <<>>]

NoSummary ==
    [date |-> "", cycles |-> <<>>, totalCycles |-> 0, activeCycles |-> 0,
     idleCycles |-> 0, errorCycles |-> 0, manualCommits |-> 0,
     balanceStart |-> Null, balanceEnd |-> Null, balanceDelta |-> Null,
     heartbeatStart |-> Null, heartbeatEnd |-> Null, events |-> <<>>]

\* the longest list of comma-separated fragments a generated message body has
MaxParts == 2

\* how a commit message starts
Prefixes ==
    {"Cycle 8:", "Cycle 12-13:", "Cycle\n7:", "cycle 7:", "Loop adoption:"}

\* what its body is made of
Fragments ==
    {"Idle", "idle_timeout", "Heartbeat  #12", "balance 1,500 sats (+300)",
     "balance , sats", "upload failed", "Error: blocked", "replied to request",
     "sent 2 replies\n\nidle after"}

RECURSIVE JoinParts(_)
JoinParts(fs) ==
    IF Len(fs) = 0 THEN ""
    ELSE IF Len(fs) = 1 THEN fs[1]
    ELSE fs[1] \o ", " \o JoinParts(Tail(fs))

PartLists == UNION {[1..k -> Fragments] : k \in 0..MaxParts}

NamedMessages ==
    {"Cycle 7: idle, heartbeat #3, balance 1,200 sats",
     "Cycle 8: replied to request, balance 1,500 sats (+300)",
     "", "Cycle 3:", "Cycle 7", "Merge branch 'main'\n\nCycle 5: idle",
     "Cycle  40: fail", "Cycle 9-: idle",
     "Cycle 9: idle, GitHub clean, balance 900 sats (-1,000)",
     "Cycle 10: balance 250 sats, heartbeat #0, balance 300sats"}

Messages ==
    NamedMessages \cup
    {p \o (IF Len(fs) = 0 THEN "" ELSE " " \o JoinParts(fs)) :
        p \in Prefixes, fs \in PartLists}

-----------------------------------------------------------------------------
(* The parser on its own: one commit message, parsed once *)

InitParse ==
    /\ pc = "parse"
    /\ msg \in Messages
    /\ timestamp \in {IsoString(5, t) : t \in TimesOfDay}
    /\ entry = NoEntry
    /\ commits = <<>>
    /\ days = <<>>
    /\ cycles = <<>>
    /\ summary = NoSummary
    /\ n = 0
    /\ today = 0
    /\ since = ""
    /\ until = ""
    /\ summaries = <<>>
    /\ narrative = ""
    /\ rows = <<>>

ParseCommit ==
    /\ pc = "parse"
    /\ entry' = parseCommit(msg, timestamp)
    /\ pc' = "parsed"
    /\ UNCHANGED <<msg, timestamp, commits, days, cycles, summary,
                   n, today, since, until, summaries, narrative, rows>>

NextParse == ParseCommit

SpecParse == InitParse /\ [][NextParse]_vars

-----------------------------------------------------------------------------
(* groupByDay on its own: any list of commits, in any order *)

\* the longest commit list
MaxCommits == 2

SeqsUpTo(S, k) == UNION {[1..j -> S] : j \in 0..k}

GroupCommits ==
    {[message |-> m, date |-> IsoString(d, t)] :
        m \in {"Cycle 4: idle", "Fix typo"}, d \in 5..6, t \in TimesOfDay}

InitGroup ==
    /\ pc = "group"
    /\ commits \in SeqsUpTo(GroupCommits, MaxCommits)
    /\ days = <<>>
    /\ msg = ""
    /\ timestamp = ""
    /\ entry = NoEntry
    /\ cycles = <<>>
    /\ summary = NoSummary
    /\ n = 0
    /\ today = 0
    /\ since = ""
    /\ until = ""
    /\ summaries = <<>>
    /\ narrative = ""
    /\ rows = <<>>

GroupByDay ==
    /\ pc = "group"
    /\ days' = groupByDay(commits)
    /\ pc' = "grouped"
    /\ UNCHANGED <<msg, timestamp, entry, commits, cycles, summary,
                   n, today, since, until, summaries, narrative, rows>>

NextGroup == GroupByDay

SpecGroup == InitGroup /\ [][NextGroup]_vars

-----------------------------------------------------------------------------
(* summarizeDay on its own: any sequence of records parseCommit can return *)

\* the longest sequence of records of a day
MaxCycles == 3

SummaryMessages ==
    {"Cycle 1: idle, heartbeat #0, balance 100 sats",
     "Cycle 2: replied to request, balance 300 sats (+200)",
     "Cycle 3: push blocked",
     "Cycle 4: idle, heartbeat #5",
     "Cycle 5: balance , sats",
     "Cycle 6: replied to request, heartbeat #2",
     "Fix typo"}

SummaryEntries == {parseCommit(m, IsoString(5, "T08:15:00Z")) : m \in SummaryMessages}

InitSummarize ==
    /\ pc = "summarize"
    /\ cycles \in SeqsUpTo(SummaryEntries, MaxCycles)
    /\ summary = NoSummary
    /\ msg = ""
    /\ timestamp = ""
    /\ entry = NoEntry
    /\ commits = <<>>
    /\ days = <<>>
    /\ n = 0
    /\ today = 0
    /\ since = ""
    /\ until = ""
    /\ summaries = <<>>
    /\ narrative = ""
    /\ rows = <<>>

SummarizeDay ==
    /\ pc = "summarize"
    /\ summary' = summarizeDay(DateKey(5), cycles)
    /\ pc' = "summarized"
    /\ UNCHANGED <<msg, timestamp, entry, commits, days, cycles,
                   n, today, since, until, summaries, narrative, rows>>

NextSummarize == SummarizeDay

SpecSummarize == InitSummarize /\ [][NextSummarize]_vars

-----------------------------------------------------------------------------
(* renderDayCard: the narrative and the timeline rows of a summarized day *)

NarrateMessages ==
    {"Cycle 1: idle, heartbeat #5, balance 0 sats",
     "Cycle 2: a, b, balance 300 sats (+200)",
     "Cycle 3: a, c, heartbeat #2",
     "Cycle 4: d",
     "Cycle 5: balance , sats",
     "Cycle 6: push <b> blocked",
     "Fix \"R&D\" <typo>",
     "Cycle 9: balance 1,500 sats (-300)"}

NarrateEntries == {parseCommit(m, IsoString(5, "T08:15:00Z")) : m \in NarrateMessages}

InitNarrate ==
    /\ pc = "summarize"
    /\ cycles \in SeqsUpTo(NarrateEntries, MaxCycles)
    /\ summary = NoSummary
    /\ narrative = ""
    /\ rows = <<>>
    /\ msg = ""
    /\ timestamp = ""
    /\ entry = NoEntry
    /\ commits = <<>>
    /\ days = <<>>
    /\ n = 0
    /\ today = 0
    /\ since = ""
    /\ until = ""
    /\ summaries = <<>>

RenderDayCard ==
    /\ pc = "summarized"
    /\ narrative' = narrateDay(summary)
    /\ rows' = [k \in 1..Len(summary.cycles) |-> narrateCycle(summary.cycles[k])]
    /\ pc' = "rendered"
    /\ UNCHANGED <<msg, timestamp, entry, commits, days, cycles, summary,
                   n, today, since, until, summaries>>

NextNarrate == SummarizeDay \/ RenderDayCard

SpecNarrate == InitNarrate /\ [][NextNarrate]_vars

-----------------------------------------------------------------------------
(* getDaySummaries: the request, the fetch it awaits, and the rest *)

\* the largest day count asked for
MaxN == 3

\* commits the data layer can return for the window asked for: author dates
\* from the day of since to the day of until, in any order
FetchResults(s, u) ==
    SeqsUpTo({[message |-> m, date |-> IsoString(d, t)] :
                 m \in {"Cycle 4: idle", "Fix typo"},
                 d \in DayNumber(SliceTo(s, 10))..DayNumber(u),
                 t \in {"T08:15:00Z"}},
             MaxCommits)

Init ==
    /\ pc = "idle"
    /\ today = 6
    /\ n = 0
    /\ since = ""
    /\ until = ""
    /\ commits = <<>>
    /\ days = <<>>
    /\ summaries = <<>>
    /\ narrative = ""
    /\ rows = <<>>
    /\ msg = ""
    /\ timestamp = ""
    /\ entry = NoEntry
    /\ cycles = <<>>
    /\ summary = NoSummary

\* getDaySummaries(k) up to its await: since and until are read off the clock
\* and fetchCommits is called
Request ==
    /\ pc = "idle"
    /\ \E k \in 0..MaxN :
        /\ n' = k
        /\ since' = daysAgo(today, k) \o "T00:00:00Z"
    /\ until' = DateKey(today)
    /\ pc' = "fetching"
    /\ UNCHANGED <<msg, timestamp, entry, commits, days, cycles, summary,
                   today, summaries, narrative, rows>>

\* midnight UTC passes while the fetch is awaited (once at most)
Midnight ==
    /\ pc = "fetching"
    /\ DateKey(today) = until
    /\ today' = today + 1
    /\ UNCHANGED <<pc, msg, timestamp, entry, commits, days, cycles, summary,
                   n, since, until, summaries, narrative, rows>>

\* the fetch resolves: the commits are grouped and the days from today back are
\* summarized
Respond ==
    /\ pc = "fetching"
    /\ \E cs \in FetchResults(since, until) :
        /\ commits' = cs
        /\ days' = groupByDay(cs)
        /\ summaries' = SummariesLoop(groupByDay(cs), today, n, 0)
    /\ pc' = "done"
    /\ UNCHANGED <<msg, timestamp, entry, cycles, summary, n, today, since, until,
                   narrative, rows>>

Next == Request \/ Midnight \/ Respond

Spec == Init /\ [][Next]_vars

-----------------------------------------------------------------------------
(* Claims about parseCommit, checked under SpecParse *)

IdleReport == "Cycle 7: idle, heartbeat #3, balance 1,200 sats"

ReplyReport == "Cycle 8: replied to request, balance 1,500 sats (+300)"

\* C1: parseCommit of "Cycle 7: idle, heartbeat #3, balance 1,200 sats" has
\* cycle 7, status idle, heartbeat 3, balance 1200 and no events.
C1_IdleReportParsed ==
    (pc = "parsed" /\ msg = IdleReport) =>
        /\ entry.cycle = Num(7)
        /\ entry.status = "idle"
        /\ entry.heartbeat = Num(3)
        /\ entry.balance = Num(1200)
        /\ entry.events = <<>>

\* C2: parseCommit of "Cycle 8: replied to request, balance 1,500 sats (+300)"
\* has status active, balance 1500, balanceDelta 300 and the one event
\* "replied to request".
C2_ReplyReportParsed ==
    (pc = "parsed" /\ msg = ReplyReport) =>
        /\ entry.status = "active"
        /\ entry.balance = Num(1500)
        /\ entry.balanceDelta = Num(300)
        /\ entry.events = <<"replied to request">>

\* C3: the record has a cycle exactly when its status is not manual, and its
\* status is manual exactly when the headline (the first line of the message)
\* does not match the cycle prefix pattern.
C3_ManualIffHeadlineUnmatched ==
    pc = "parsed" =>
        /\ (entry.cycle # Null) <=> (entry.status # "manual")
        /\ (entry.status = "manual") <=> ~CycleMatch(FirstLine(msg)).matched

\* the string e is the first line of m: a prefix of m without a line break,
\* followed in m by a line break or by nothing
IsFirstLineOf(e, m) ==
    /\ LitAt(m, 1, e) \/ e = ""
    /\ \A j \in 1..Len(e) : Char(e, j) # "\n"
    /\ Len(e) = Len(m) \/ Char(m, Len(e) + 1) = "\n"

\* C4: a message that does not match the cycle prefix pattern is parsed, without
\* failing, to status manual, the first line of the message as the only event,
\* and no cycle, heartbeat, balance or balanceDelta.
C4_UnmatchedIsManual ==
    /\ (pc = "parse" /\ ~CycleMatch(msg).matched) => ENABLED ParseCommit
    /\ (pc = "parsed" /\ ~CycleMatch(msg).matched) =>
        /\ entry.status = "manual"
        /\ Len(entry.events) = 1
        /\ IsFirstLineOf(entry.events[1], msg)
        /\ entry.cycle = Null
        /\ entry.heartbeat = Null
        /\ entry.balance = Null
        /\ entry.balanceDelta = Null

C4_Witness ==
    /\ pc = "parsed"
    /\ msg = "Merge branch 'main'\n\nCycle 5: idle"
    /\ entry.status = "manual"
    /\ entry.events = <<"Merge branch 'main'">>

\* the words of a text: its maximal runs of word characters, in lower case
WordsOf(s) ==
    {ToLower(SubSeq(s, i, Min({j \in i..(Len(s) + 1) : ~IsWordChar(Char(s, j))}) - 1)) :
        i \in {j \in 1..Len(s) : IsWordChar(Char(s, j)) /\ ~IsWordChar(Char(s, j - 1))}}

\* C5: a message that matches the cycle prefix gets exactly one status by the
\* ordered rules: idle when the body has the word "idle"; otherwise error when it
\* has the word "fail", "error" or "blocked"; otherwise active.
C5_StatusCascade ==
    (pc = "parsed" /\ CycleMatch(msg).matched) =>
        LET words == WordsOf(BodyOf(msg))
        IN  /\ "idle" \in words => entry.status = "idle"
            /\ ("idle" \notin words /\ words \cap {"fail", "error", "blocked"} # {})
                  => entry.status = "error"
            /\ ("idle" \notin words /\ words \cap {"fail", "error", "blocked"} = {})
                  => entry.status = "active"

C5_Witness ==
    /\ pc = "parsed"
    /\ CycleMatch(msg).matched
    /\ {"idle", "error", "blocked"} \subseteq WordsOf(BodyOf(msg))
    /\ entry.status = "idle"

\* C7: the balance of a parsed record is absent or a non-negative integer, the
\* digits of the first "balance <digits and commas> sats" of the body.
C7_BalanceAbsentOrNatural ==
    pc = "parsed" =>
        \/ entry.balance = Null
        \/ /\ entry.balance.kind = "num"
           /\ entry.balance.val >= 0
           /\ BalanceMatch(BodyOf(msg)).matched
           /\ entry.balance.val = DigitsValue(RemoveCommas(BalanceMatch(BodyOf(msg)).text))

-----------------------------------------------------------------------------
(* Claims about groupByDay, checked under SpecGroup *)

\* the minutes from the start of the calendar to an ISO instant
Instant(ts) ==
    DayNumber(SliceTo(ts, 10)) * 1440
    + ParseInt(SubSeq(ts, 12, 13)).val * 60 + ParseInt(SubSeq(ts, 15, 16)).val

\* C6: whatever the order of the commit list, the records of each day that
\* groupByDay returns are in chronological order (timestamps non-decreasing).
C6_DaysChronological ==
    pc = "grouped" =>
        \A date \in DOMAIN days :
            \A i, j \in 1..Len(days[date]) :
                i < j => Instant(days[date][i].timestamp) <= Instant(days[date][j].timestamp)

-----------------------------------------------------------------------------
(* Claims about summarizeDay, checked under SpecSummarize *)

CountStatus(s) == Cardinality({i \in 1..Len(cycles) : cycles[i].status = s})

\* C8: totalCycles = idleCycles + activeCycles + errorCycles, each the number of
\* records with that status; manualCommits is the number of manual records and
\* is no part of totalCycles.
C8_TotalIsIdleActiveError ==
    pc = "summarized" =>
        /\ summary.idleCycles = CountStatus("idle")
        /\ summary.activeCycles = CountStatus("active")
        /\ summary.errorCycles = CountStatus("error")
        /\ summary.manualCommits = CountStatus("manual")
        /\ summary.totalCycles
             = summary.idleCycles + summary.activeCycles + summary.errorCycles
        /\ summary.totalCycles = Len(cycles) - CountStatus("manual")

C8_Witness ==
    /\ pc = "summarized"
    /\ summary.manualCommits = 1
    /\ summary.idleCycles = 1
    /\ summary.errorCycles = 1
    /\ summary.totalCycles = 2

\* the positions of the records that carry the field f
Carrying(f) == {i \in 1..Len(cycles) : cycles[i][f] # Null}

FirstCarried(f) ==
    IF Carrying(f) = {} THEN Null ELSE cycles[Min(Carrying(f))][f]

LastCarried(f) ==
    IF Carrying(f) = {} THEN Null
    ELSE cycles[CHOOSE i \in Carrying(f) : \A j \in Carrying(f) : j <= i][f]

\* C9: balanceStart is the balance of the first record that carries one and
\* balanceEnd that of the last (both absent when none does); balanceDelta is
\* balanceEnd - balanceStart when both are present and absent otherwise;
\* heartbeatStart and heartbeatEnd likewise from the heartbeats.
C9_StartFirstEndLast ==
    pc = "summarized" =>
        /\ summary.balanceStart = FirstCarried("balance")
        /\ summary.balanceEnd = LastCarried("balance")
        /\ summary.heartbeatStart = FirstCarried("heartbeat")
        /\ summary.heartbeatEnd = LastCarried("heartbeat")
        /\ Carrying("balance") = {} => summary.balanceDelta = Null
        /\ Carrying("balance") # {} =>
             IF summary.balanceStart.kind = "num" /\ summary.balanceEnd.kind = "num"
             THEN summary.balanceDelta
                    = Num(summary.balanceEnd.val - summary.balanceStart.val)
             ELSE summary.balanceDelta = NaN

C9_Witness ==
    /\ pc = "summarized"
    /\ Len(cycles) = 3
    /\ cycles[1].balance = Num(300)
    /\ cycles[2].balance = Null
    /\ cycles[3].balance = Num(100)
    /\ summary.balanceStart = Num(300)
    /\ summary.balanceEnd = Num(100)
    /\ summary.balanceDelta = Num(-200)
    /\ summary.heartbeatStart = Num(0)
    /\ summary.heartbeatEnd = Num(0)

-----------------------------------------------------------------------------
(* Claims about getDaySummaries, checked under Spec *)

\* the commits fetched whose author date is on the day with this key
CommitsOn(key) == {c \in 1..Len(commits) : SliceTo(commits[c].date, 10) = key}

\* C10: for n >= 1 the summaries are ordered most recent day first with no date
\* twice, the first is the one of today even when today has no records, and no
\* older day without records has a summary.
C10_RecentFirstTodayAlways ==
    (pc = "done" /\ n >= 1) =>
        /\ Len(summaries) >= 1
        /\ summaries[1].date = DateKey(today)
        /\ \A i, j \in 1..Len(summaries) :
              i < j => DayNumber(summaries[i].date) > DayNumber(summaries[j].date)
        /\ \A k \in 2..Len(summaries) :
              /\ CommitsOn(summaries[k].date) # {}
              /\ Len(summaries[k].cycles) = Cardinality(CommitsOn(summaries[k].date))

C10_Witness ==
    /\ pc = "done"
    /\ n = 3
    /\ Len(summaries) = 2
    /\ summaries[1].date = DateKey(today)
    /\ summaries[1].cycles = <<>>
    /\ summaries[2].date = daysAgo(today, 2)
    /\ CommitsOn(daysAgo(today, 1)) = {}

\* the summary of a day without records
EmptyDaySummary(key) ==
    [date |-> key, cycles |-> <<>>, totalCycles |-> 0, activeCycles |-> 0,
     idleCycles |-> 0, errorCycles |-> 0, manualCommits |-> 0,
     balanceStart |-> Null, balanceEnd |-> Null, balanceDelta |-> Null,
     heartbeatStart |-> Null, heartbeatEnd |-> Null, events |-> <<>>]

\* C11 as stated: when no commit is fetched, getDaySummaries returns exactly one
\* summary, the one of the most recent day, with every count zero, every
\* balance and heartbeat field absent and no events.
C11_EmptyInputOneSummary ==
    (pc = "done" /\ commits = <<>>) => summaries = <<EmptyDaySummary(DateKey(today))>>

\* C11 (amended): for a day count n >= 1, when no commit is fetched,
\* getDaySummaries does not fail and returns exactly one summary, the one of
\* the most recent day, with every count zero, every balance and heartbeat
\* field absent and no events.
C11_EmptyInputOneSummaryForDays ==
    /\ pc = "fetching" => ENABLED Respond
    /\ (pc = "done" /\ commits = <<>> /\ n >= 1) =>
          summaries = <<EmptyDaySummary(DateKey(today))>>

C11_Witness ==
    /\ pc = "done"
    /\ commits = <<>>
    /\ n = 2
    /\ Len(summaries) = 1
    /\ summaries[1].date = DateKey(today)
    /\ summaries[1].totalCycles = 0

\* the summaries whose cycles hold the record of commit number c
SummariesHolding(c) ==
    {k \in 1..Len(summaries) :
        /\ summaries[k].date = SliceTo(commits[c].date, 10)
        /\ \E j \in 1..Len(summaries[k].cycles) :
              /\ summaries[k].cycles[j].timestamp = commits[c].date
              /\ summaries[k].cycles[j].message = FirstLine(commits[c].message)}

\* C17: for n >= 1, every commit fetched for the window (from 00:00 UTC of the
\* day n days ago up to now) is in the cycles of exactly one returned summary.
C17_EveryFetchedCommitSummarized ==
    (pc = "done" /\ n >= 1) =>
        \A c \in 1..Len(commits) : Cardinality(SummariesHolding(c)) = 1

-----------------------------------------------------------------------------
(* Claims about narrateDay and narrateCycle, checked under SpecNarrate *)

Contains(s, sub) == \E i \in 1..Len(s) : LitAt(s, i, sub)

Occurrences(s, sub) == Cardinality({i \in 1..Len(s) : LitAt(s, i, sub)})

\* where sub first starts in s, 0 when it does not occur
IndexOf(s, sub) ==
    IF Contains(s, sub) THEN Min({i \in 1..Len(s) : LitAt(s, i, sub)}) ELSE 0

StartsWith(s, sub) == LitAt(s, 1, sub)

EndsWith(s, sub) == LitAt(s, Len(s) - Len(sub) + 1, sub)

Entities == {"&mdash;", "&amp;", "&lt;", "&gt;", "&quot;"}

\* every & of s starts a character entity
AmpersandsEscaped(s) ==
    \A i \in 1..Len(s) : Char(s, i) = "&" => \E e \in Entities : LitAt(s, i, e)

\* the record's row shows the <span> of a balance change
HasDeltaSpan(c) == c.cycle # Null /\ c.balanceDelta # Null /\ c.balanceDelta # Num(0)

\* C12: the narrative of a day and the row of a record hold no unescaped &, <, >
\* or " taken from event or headline text: the narrative, whose fixed text has
\* none but the & of &mdash;, holds none at all, and a row holds only those of
\* its own tags (<strong>, and the <span class="..."> of a balance change).
C12_NarrativesEscaped ==
    pc = "rendered" =>
        /\ AmpersandsEscaped(narrative)
        /\ Occurrences(narrative, "<") = 0
        /\ Occurrences(narrative, ">") = 0
        /\ Occurrences(narrative, "\"") = 0
        /\ \A k \in 1..Len(rows) :
              LET tags == IF HasDeltaSpan(summary.cycles[k]) THEN 4 ELSE 2
                  quotes == IF HasDeltaSpan(summary.cycles[k]) THEN 2 ELSE 0
              IN  /\ AmpersandsEscaped(rows[k])
                  /\ Occurrences(rows[k], "<") = tags
                  /\ Occurrences(rows[k], ">") = tags
                  /\ Occurrences(rows[k], "\"") = quotes

\* C13: when heartbeatStart and heartbeatEnd are both present the narrative states
\* heartbeatEnd - heartbeatStart + 1 heartbeats, in the singular wording exactly
\* when that count is 1; when no heartbeat was seen it has no heartbeat clause.
C13_HeartbeatCount ==
    (pc = "rendered" /\ summary.totalCycles + summary.manualCommits > 0) =>
        IF summary.heartbeatStart # Null /\ summary.heartbeatEnd # Null
        THEN LET count == summary.heartbeatEnd.val - summary.heartbeatStart.val + 1
             IN  /\ Occurrences(narrative, " to AIBTC.") = 1
                 /\ count = 1 <=> Contains(narrative, "Sent 1 heartbeat to AIBTC.")
                 /\ count # 1 =>
                      Contains(narrative,
                               "Sent " \o IntToString(count) \o " heartbeats to AIBTC.")
        ELSE ~Contains(narrative, " to AIBTC.")

\* the positions of list whose element occurs at no earlier position
FirstOccurrences(list) ==
    {i \in 1..Len(list) : \A j \in 1..(i - 1) : list[j] # list[i]}

\* the elements of list at their first occurrences, in order
UniqueInOrder(list) ==
    LET pos == FirstOccurrences(list)
    IN  [k \in 1..Cardinality(pos) |->
            list[CHOOSE i \in pos : Cardinality({j \in pos : j < i}) = k - 1]]

\* C14: with at least one event the narrative ends with the notable-events
\* clause, built from the events deduplicated in order of first occurrence: all
\* of them when there are at most 3, else the first 3 and "and N more" with N
\* the number of unique events minus 3; with no events there is no such clause.
C14_NotableEvents ==
    pc = "rendered" =>
        LET unique == UniqueInOrder(summary.events)
        IN  IF Len(summary.events) > 0
            THEN IF Len(unique) <= 3
                 THEN EndsWith(narrative, " Notable: " \o Join(unique, ". ") \o ".")
                 ELSE EndsWith(narrative,
                               " Notable: " \o unique[1] \o ". " \o unique[2] \o ". "
                               \o unique[3] \o ", and " \o IntToString(Len(unique) - 3)
                               \o " more.")
            ELSE ~Contains(narrative, "Notable: ")

C14_Witness ==
    /\ pc = "rendered"
    /\ summary.events = <<"a", "b", "a", "c", "d">>
    /\ EndsWith(narrative, " Notable: a. b. c, and 1 more.")

\* the five cases of the opening sentence that hold for the summarized day
OpeningCases ==
    {k \in 1..5 :
        \/ k = 1 /\ summary.totalCycles = 0 /\ summary.manualCommits = 0
        \/ k = 2 /\ summary.totalCycles = 0 /\ summary.manualCommits > 0
        \/ k = 3 /\ summary.activeCycles > 0 /\ summary.idleCycles > 0
        \/ k = 4 /\ summary.totalCycles > 0 /\ summary.activeCycles = 0
        \/ k = 5 /\ summary.activeCycles > 0 /\ summary.idleCycles = 0}

\* C15: the narrative is the fixed no-activity sentence when the day has no
\* cycle and no manual commit, and otherwise opens with the manual-action
\* sentence (no cycle, some manual commit), the mixed sentence (active and idle
\* cycles), the all-on-standby sentence (cycles, none active) or the all-active
\* sentence (active cycles, none idle); exactly one of the five cases holds.
C15_OpeningSentence ==
    pc = "rendered" =>
        LET total == IntToString(summary.totalCycles)
        IN  /\ Cardinality(OpeningCases) = 1
            /\ 1 \in OpeningCases => narrative = "No recorded activity this day."
            /\ 2 \in OpeningCases =>
                 StartsWith(narrative,
                            IntToString(summary.manualCommits) \o " manual action"
                            \o (IF summary.manualCommits = 1 THEN "" ELSE "s")
                            \o " logged (no autonomous cycles).")
            /\ 3 \in OpeningCases =>
                 StartsWith(narrative,
                            "Ran " \o total \o " cycles &mdash; "
                            \o IntToString(summary.activeCycles) \o " active, "
                            \o IntToString(summary.idleCycles) \o " on standby.")
            /\ 4 \in OpeningCases =>
                 StartsWith(narrative,
                            "Ran " \o total
                            \o " cycles, all on standby watching for messages and tasks.")
            /\ 5 \in OpeningCases =>
                 StartsWith(narrative, "Ran " \o total \o " cycles, all active.")

C15_Witness ==
    /\ pc = "rendered"
    /\ summary.activeCycles = 0
    /\ summary.idleCycles = 1
    /\ summary.errorCycles = 1
    /\ StartsWith(narrative,
                  "Ran 2 cycles, all on standby watching for messages and tasks. Hit 1 issue")

\* where the balance clause starts in the narrative, 0 when it has none
BalanceClauseAt ==
    IndexOf(narrative, "Balance grew by ") + IndexOf(narrative, "Spent ")
    + IndexOf(narrative, "Balance steady at ")

\* C16: for a day with some activity the narrative has exactly one balance
\* clause when a record of the day carried a balance and none otherwise: the
\* growth clause when balanceDelta > 0, the decline clause with the absolute
\* value when balanceDelta < 0, the steady clause when balanceDelta = 0; the
\* clause stands after the issue-count clause and before the heartbeat clause.
C16_BalanceClause ==
    (pc = "rendered" /\ summary.totalCycles + summary.manualCommits > 0) =>
        LET carried == \E k \in 1..Len(summary.cycles) : summary.cycles[k].balance # Null
            delta == summary.balanceDelta
            end == ToLocaleString(summary.balanceEnd)
        IN  /\ Occurrences(narrative, "Balance grew by ") + Occurrences(narrative, "Spent ")
               + Occurrences(narrative, "Balance steady at ") = (IF carried THEN 1 ELSE 0)
            /\ (delta.kind = "num" /\ delta.val > 0) =>
                 Contains(narrative, "Balance grew by " \o GroupedNat(delta.val)
                                     \o " sats to " \o end \o " sats.")
            /\ (delta.kind = "num" /\ delta.val < 0) =>
                 Contains(narrative, "Spent " \o GroupedNat(0 - delta.val)
                                     \o " sats &mdash; balance now " \o end \o " sats.")
            /\ delta = Num(0) =>
                 Contains(narrative, "Balance steady at " \o end \o " sats.")
            /\ (carried /\ Contains(narrative, " (see details below).")) =>
                 IndexOf(narrative, " (see details below).") < BalanceClauseAt
            /\ (carried /\ Contains(narrative, " to AIBTC.")) =>
                 BalanceClauseAt < IndexOf(narrative, "Sent ")

C16_Witness ==
    /\ pc = "rendered"
    /\ summary.balanceDelta = Num(-1500)
    /\ Contains(narrative, "Hit 1 issue (see details below). Spent 1,500 sats &mdash; balance now 0 sats. Sent 1 heartbeat to AIBTC.")

\* C18: in the summary of a day balanceStart, balanceEnd and balanceDelta are
\* absent together, and heartbeatStart and heartbeatEnd are absent together, so
\* a narrative with the growth or the decline clause has a balanceEnd.
C18_BalanceFieldsAbsentTogether ==
    /\ pc \in {"summarized", "rendered"} =>
          /\ summary.balanceStart = Null <=> summary.balanceEnd = Null
          /\ summary.balanceEnd = Null <=> summary.balanceDelta = Null
          /\ summary.heartbeatStart = Null <=> summary.heartbeatEnd = Null
    /\ (pc = "rendered" /\ summary.balanceDelta # Null) => summary.balanceEnd # Null
    /\ (pc = "rendered" /\ (Contains(narrative, "Balance grew by ")
                            \/ Contains(narrative, "Spent "))) =>
          summary.balanceEnd # Null

C18_Witness ==
    /\ pc = "rendered"
    /\ summary.balanceStart = Num(0)
    /\ summary.balanceEnd = Num(300)
    /\ summary.balanceDelta = Num(300)
    /\ Contains(narrative, "Balance grew by 300 sats to 300 sats.")

====
